---- MODULE Spec2Model ----
(***************************************************************************)
(* A model of crates/cli-support/src/lib.rs of wasm-bindgen:               *)
(*   - Bindgen (the builder) and Bindgen::_generate (the orchestrator),    *)
(*   - extract_programs (the harvest of "__wasm_bindgen_unstable"          *)
(*     custom sections),                                                   *)
(*   - MyResolver (the import resolver of the sandbox),                    *)
(*   - the run_descriptor closure and MyExternals::invoke_index.           *)
(*                                                                         *)
(* A panic! / unwrap / expect / assert! / slice-index failure is modelled  *)
(* as the control position "panicked" with the kind of the failure in      *)
(* `outcome`; an `Err` returned through `?` as position "failed".          *)
(*                                                                         *)
(* Left out: the setters browser, no_modules, no_modules_global, debug and *)
(* demangle, which _generate does not read; failures of the file system;   *)
(* the text the generator (mod js) produces. The generator is taken to     *)
(* call run_descriptor any number of times while it works on a Program.    *)
(***************************************************************************)
EXTENDS Integers, Sequences, FiniteSets, TLC

VARIABLES
    path,       \* Bindgen.path is Some(_)
    typescript, \* Bindgen.typescript
    nodejs,     \* Bindgen.nodejs
    fs,         \* the module stored in the input file
    module,     \* `module` of _generate: [sections, imports]
    pc,         \* control position
    outcome,    \* how the run ended ("none" while running)
    idx,        \* extract_programs: index of the section `retain` looks at
    kept,       \* extract_programs: sections retained so far
    payload,    \* extract_programs: the rest of the payload
    a,          \* extract_programs: the bytes of the current frame
    p,          \* extract_programs: the decoded ProgramOnlySchema
    ret,        \* extract_programs: the Programs pushed so far
    programs,   \* `programs` of _generate
    ri,         \* ModuleInstance::new: index of the import being resolved
    stubs,      \* the resolved imports of the instance
    cur,        \* index of the Program the generator is working on
    nruns,      \* number of run_descriptor calls made so far
    name,       \* run_descriptor: the export being run
    v,          \* run_descriptor: MyExternals.0
    log,        \* history: arguments the describe callback accepted in this call
    tokens,     \* the value run_descriptor handed back
    depth,      \* number of run_descriptor calls in flight
    event,      \* history: what the export being run did last
    files,      \* output files written
    trace       \* history: the steps of _generate completed, in order

vars == <<path, typescript, nodejs, fs, module, pc, outcome, idx, kept, payload,
          a, p, ret, programs, ri, stubs, cur, nruns, name, v, log, tokens,
          depth, event, files, trace>>

harvestVars == <<idx, kept, payload, a, p, ret>>
configVars == <<path, typescript, nodejs, fs>>
sandboxVars == <<ri, stubs>>
runVars == <<nruns, name, v, log, tokens, depth, event>>

-----------------------------------------------------------------------------
(* Bounds of the model *)

MaxSections == 2
MaxFrames == 2
MaxImports == 2
MaxCalls == 3
MaxRuns == 2

-----------------------------------------------------------------------------
(* Bytes, frames and the JSON records *)

RECURSIVE Concat(_)
Concat(ss) == IF ss = <<>> THEN <<>> ELSE Head(ss) \o Concat(Tail(ss))

SeqsUpTo(S, n) == UNION {[1..k -> S] : k \in 0..n}

MetadataName == "__wasm_bindgen_unstable"

SCHEMA_VERSION == 1

\* A slip the claims are tried against: only the low byte of the length is read.
FrameLenLowByte(pl) == pl[1]

\* The 4-byte little-endian length read at the head of the payload.
FrameLen(pl) == pl[1] + pl[2] * 256 + pl[3] * 65536 + pl[4] * 16777216

\* serde_json::from_slice::<shared::ProgramOnlySchema>. A frame's JSON text is
\* abstracted to a byte sequence: the first byte carries the schema_version (and
\* producer version) fields, the other bytes the rest of the record; the byte 0
\* stands for text that is not the JSON of the field.
DecodeEnvelope(bytes) ==
    IF Len(bytes) >= 1 /\ bytes[1] # 0
    THEN [ok |-> TRUE, schema_version |-> bytes[1], version |-> bytes[1]]
    ELSE [ok |-> FALSE, schema_version |-> 0, version |-> 0]

\* serde_json::from_slice::<shared::Program>: needs the version fields and the
\* rest of the record, all of it well formed.
DecodeProgram(bytes) ==
    IF Len(bytes) >= 2 /\ \A i \in 1..Len(bytes) : bytes[i] # 0
    THEN [ok |-> TRUE,
          program |-> [schema_version |-> bytes[1], version |-> bytes[1],
                       items |-> Tail(bytes)]]
    ELSE [ok |-> FALSE,
          program |-> [schema_version |-> 0, version |-> 0, items |-> <<>>]]

NoEnvelope == [ok |-> FALSE, schema_version |-> 0, version |-> 0]

-----------------------------------------------------------------------------
(* Input modules *)

Header(n) == <<n % 256, (n \div 256) % 256, (n \div 65536) % 256,
               (n \div 16777216) % 256>>

FrameOf(body) == Header(Len(body)) \o body

\* The pieces payloads are made of: five well-delimited frames (two Programs, a
\* record of another schema version that is no Program, a record of this
\* version that is no Program, an empty record), a frame cut short, and a lone
\* byte. Concatenation also yields misaligned headers.
Chunks ==
    { FrameOf(<<1, 1>>), FrameOf(<<1, 2>>), FrameOf(<<2>>), FrameOf(<<1>>),
      FrameOf(<<>>), <<2, 0, 0, 0, 1>>, <<1>> }

\* The pieces of the payloads whole runs of generate are tried on.
GenChunks == { FrameOf(<<1, 1>>), FrameOf(<<2>>), <<2, 0, 0, 0, 1>> }

SectionKinds == {"other", "custom", "metadata"}

\* The payload of section i: the chunks assigned to it, in order.
PayloadOf(cs, asg, i) ==
    Concat([j \in 1..Len(cs) |-> IF asg[j] = i THEN cs[j] ELSE <<>>])

SectionOf(kind, i, pl) ==
    CASE kind = "other" ->
            [type |-> "Other", name |-> "", payload |-> <<>>, id |-> i]
      [] kind = "custom" ->
            [type |-> "Custom", name |-> "__wasm_bindgen",
             payload |-> FrameOf(<<1, 1>>), id |-> i]
      [] kind = "metadata" ->
            [type |-> "Custom", name |-> MetadataName, payload |-> pl, id |-> i]

\* Section lists of at most N sections of the kinds K, whose metadata sections
\* hold at most MaxFrames chunks of C between them.
SectionLists(K, C, N) ==
    UNION { UNION { UNION {
        { [i \in 1..n |-> SectionOf(ks[i], i, PayloadOf(cs, asg, i))] :
            asg \in { f \in [1..Len(cs) -> 1..n] :
                        /\ \A j \in 1..Len(cs) : ks[f[j]] = "metadata"
                        /\ \A j \in 1..Len(cs) : \A k \in 1..Len(cs) :
                              j <= k => f[j] <= f[k] } }
        : cs \in SeqsUpTo(C, MaxFrames) }
        : ks \in [1..n -> K] }
        : n \in 0..N }

-----------------------------------------------------------------------------
(* Imports *)

Placeholder == "__wbindgen_placeholder__"
Describe == "__wbindgen_describe"

Func(m, f, sig) ==
    [kind |-> "func", module |-> m, field |-> f, sig |-> sig, vtype |-> "",
     mutable |-> FALSE, initial |-> 0, hasmax |-> FALSE, max |-> 0]

Global(t, mut) ==
    [kind |-> "global", module |-> "env", field |-> "g", sig |-> <<>>,
     vtype |-> t, mutable |-> mut, initial |-> 0, hasmax |-> FALSE, max |-> 0]

Memory(initial, hasmax, max) ==
    [kind |-> "memory", module |-> "env", field |-> "memory", sig |-> <<>>,
     vtype |-> "", mutable |-> FALSE, initial |-> initial, hasmax |-> hasmax,
     max |-> max]

Table(initial, hasmax, max) ==
    [kind |-> "table", module |-> "env", field |-> "table", sig |-> <<>>,
     vtype |-> "", mutable |-> FALSE, initial |-> initial, hasmax |-> hasmax,
     max |-> max]

\* The imports a module may declare; the last of the memories and of the tables
\* has limits no valid module has.
ImportKinds ==
    { Func(Placeholder, Describe, <<"I32">>), Func(Placeholder, "other", <<"I32">>),
      Func("env", Describe, <<"I32">>), Func("env", "other", <<>>),
      Func(Placeholder, Describe, <<>>), Func(Placeholder, Describe, <<"I64">>),
      Global("I32", TRUE), Global("I64", FALSE), Global("F32", TRUE),
      Global("F64", FALSE),
      Memory(1, FALSE, 0), Memory(1, TRUE, 2), Memory(2, TRUE, 1),
      Table(1, FALSE, 0), Table(0, TRUE, 1), Table(2, TRUE, 1) }

\* The imports of the modules whole runs of generate are tried on.
StdImports ==
    << Func(Placeholder, Describe, <<"I32">>), Func("env", "other", <<"I32">>),
       Func(Placeholder, Describe, <<>>), Func(Placeholder, Describe, <<"I64">>),
       Global("I32", TRUE), Memory(1, TRUE, 2), Table(1, FALSE, 0) >>

\* The values the exports pass.
I32Vals == {-1, 10, 20, 30}

Values ==
    {[type |-> "I32", val |-> x] : x \in I32Vals} \cup {[type |-> "I64", val |-> 7]}

ArgsOf(sig) ==
    {args \in [1..Len(sig) -> Values] : \A k \in 1..Len(sig) : args[k].type = sig[k]}

ExportNames == {"describe_foo", "describe_bar"}

NoEvent == [what |-> "none", imp |-> 0, args |-> <<>>]

-----------------------------------------------------------------------------
(* Failures *)

\* A slip the claims are tried against: the failure is noted and the run goes on
\* to its output.
PanicAndGoOn(kind) ==
    /\ pc' = "write_js"
    /\ outcome' = kind

Panic(kind) ==
    /\ pc' = "panicked"
    /\ outcome' = kind

Fail ==
    /\ pc' = "failed"
    /\ outcome' = "Err"

-----------------------------------------------------------------------------
(* extract_programs *)

\* A slip the claims are tried against: every custom section is taken.
IsCustom(s) == s.type = "Custom"

IsMetadata(s) == s.type = "Custom" /\ s.name = MetadataName

\* `payload[4..].split_at(len)`: whether the slice is long enough.
SplitFits(pl, len) == len <= Len(pl) - 4

\* A slip the claims are tried against: newer schema versions are let through.
VersionAtLeast(env) == env.schema_version >= SCHEMA_VERSION

VersionMatches(env) == env.schema_version = SCHEMA_VERSION

\* A slip the claims are tried against: the Program is put in front.
PushFront(vec, x) == <<x>> \o vec

Push(vec, x) == Append(vec, x)

\* The closure of `retain`, up to the `while`: sections that are not the
\* metadata are kept.
RetainSection ==
    /\ pc = "extract"
    /\ idx <= Len(module.sections)
    /\ LET s == module.sections[idx] IN
         IF IsMetadata(s)
         THEN /\ payload' = s.payload
              /\ pc' = "frame"
              /\ UNCHANGED <<idx, kept>>
         ELSE /\ kept' = Append(kept, s)
              /\ idx' = idx + 1
              /\ UNCHANGED <<payload, pc>>
    /\ UNCHANGED <<a, p, ret, outcome, module, programs, trace>>
    /\ UNCHANGED <<configVars, sandboxVars, runVars, cur, files>>

\* The head of the `while` loop: the loop ends (the section is dropped), or the
\* length is read and the payload split.
ReadFrame ==
    /\ pc = "frame"
    /\ IF Len(payload) = 0
       THEN /\ idx' = idx + 1
            /\ pc' = "extract"
            /\ UNCHANGED <<payload, a, outcome>>
       ELSE IF Len(payload) < 4
       THEN /\ Panic("MalformedMetadata")
            /\ UNCHANGED <<idx, payload, a>>
       ELSE IF ~SplitFits(payload, FrameLen(payload))
       THEN /\ Panic("MalformedMetadata")
            /\ UNCHANGED <<idx, payload, a>>
       ELSE /\ a' = SubSeq(payload, 5, 4 + FrameLen(payload))
            /\ payload' = SubSeq(payload, 5 + FrameLen(payload), Len(payload))
            /\ pc' = "envelope"
            /\ UNCHANGED <<idx, outcome>>
    /\ UNCHANGED <<kept, p, ret, module, programs, trace>>
    /\ UNCHANGED <<configVars, sandboxVars, runVars, cur, files>>

\* The decode of the frame as a ProgramOnlySchema.
ReadEnvelope ==
    /\ pc = "envelope"
    /\ IF DecodeEnvelope(a).ok
       THEN /\ p' = DecodeEnvelope(a)
            /\ pc' = "check"
            /\ UNCHANGED outcome
       ELSE /\ Panic("MalformedMetadata")
            /\ UNCHANGED p
    /\ UNCHANGED <<idx, kept, payload, a, ret, module, programs, trace>>
    /\ UNCHANGED <<configVars, sandboxVars, runVars, cur, files>>

\* The comparison of the schema versions.
CheckVersion ==
    /\ pc = "check"
    /\ IF VersionMatches(p)
       THEN /\ pc' = "decode"
            /\ UNCHANGED outcome
       ELSE Panic("ProtocolVersionMismatch")
    /\ UNCHANGED <<harvestVars, module, programs, trace>>
    /\ UNCHANGED <<configVars, sandboxVars, runVars, cur, files>>

\* The decode of the frame as a Program, and the push.
ReadProgram ==
    /\ pc = "decode"
    /\ IF DecodeProgram(a).ok
       THEN /\ ret' = Push(ret, DecodeProgram(a).program)
            /\ pc' = "frame"
            /\ UNCHANGED outcome
       ELSE /\ Panic("MalformedMetadata")
            /\ UNCHANGED ret
    /\ UNCHANGED <<idx, kept, payload, a, p, module, programs, trace>>
    /\ UNCHANGED <<configVars, sandboxVars, runVars, cur, files>>

\* `retain` is through: the module holds the retained sections, and `ret` is
\* returned into `programs`.
ExtractDone ==
    /\ pc = "extract"
    /\ idx > Len(module.sections)
    /\ module' = [module EXCEPT !.sections = kept]
    /\ programs' = ret
    /\ pc' = "harvested"
    /\ trace' = Append(trace, [ev |-> "harvest", arg |-> Len(ret)])
    /\ UNCHANGED <<harvestVars, outcome>>
    /\ UNCHANGED <<configVars, sandboxVars, runVars, cur, files>>

NextHarvest ==
    \/ RetainSection
    \/ ReadFrame
    \/ ReadEnvelope
    \/ CheckVersion
    \/ ReadProgram
    \/ ExtractDone

\* extract_programs applied to a module already decoded.
InitHarvest ==
    /\ module \in { [sections |-> ss, imports |-> <<>>] :
                      ss \in SectionLists(SectionKinds, Chunks, MaxSections) }
    /\ fs = module
    /\ path = TRUE
    /\ typescript = FALSE
    /\ nodejs = FALSE
    /\ pc = "extract"
    /\ outcome = "none"
    /\ idx = 1
    /\ kept = <<>>
    /\ payload = <<>>
    /\ a = <<>>
    /\ p = NoEnvelope
    /\ ret = <<>>
    /\ programs = <<>>
    /\ ri = 1
    /\ stubs = <<>>
    /\ cur = 1
    /\ nruns = 0
    /\ name = ""
    /\ v = <<>>
    /\ log = <<>>
    /\ tokens = <<>>
    /\ depth = 0
    /\ event = NoEvent
    /\ files = {}
    /\ trace = <<[ev |-> "decode", arg |-> 0]>>

SpecHarvest == InitHarvest /\ [][NextHarvest]_vars

-----------------------------------------------------------------------------
(* The sandbox: wasmi::Module::from_parity_wasm_module, MyResolver and
   wasmi::ModuleInstance::new *)

\* The limits a valid module declares.
LimitsValid(initial, hasmax, max) == hasmax => initial <= max

\* The validation of from_parity_wasm_module, as far as imports go.
ImportValid(i) ==
    i.kind \in {"memory", "table"} => LimitsValid(i.initial, i.hasmax, i.max)

Stub(kind, index, sig, vtype, mut, initial, hasmax, max) ==
    [kind |-> kind, idx |-> index, sig |-> sig, vtype |-> vtype, val |-> 0,
     mutable |-> mut, initial |-> initial, hasmax |-> hasmax, max |-> max]

NoStub == Stub("", 0, <<>>, "", FALSE, 0, FALSE, 0)

\* A slip the claims are tried against: only the describe callback resolves.
ResolveFuncStrict(module_name, field_name, signature) ==
    IF module_name = Placeholder /\ field_name = Describe
    THEN [ok |-> TRUE, stub |-> Stub("func", 1, signature, "", FALSE, 0, FALSE, 0)]
    ELSE [ok |-> FALSE, stub |-> NoStub]

\* MyResolver::resolve_func: the host function 1 for the describe callback,
\* the host function 0 for everything else.
ResolveFunc(module_name, field_name, signature) ==
    [ok |-> TRUE,
     stub |-> Stub("func",
                   IF module_name = Placeholder /\ field_name = Describe
                   THEN 1 ELSE 0,
                   signature, "", FALSE, 0, FALSE, 0)]

\* MyResolver::resolve_global: a global of the declared type, zero, with the
\* declared mutability.
ResolveGlobal(descriptor) ==
    [ok |-> TRUE,
     stub |-> Stub("global", 0, <<>>, descriptor.vtype, descriptor.mutable,
                   0, FALSE, 0)]

\* MyResolver::resolve_memory: MemoryInstance::alloc checks the limits.
ResolveMemory(descriptor) ==
    IF LimitsValid(descriptor.initial, descriptor.hasmax, descriptor.max)
    THEN [ok |-> TRUE,
          stub |-> Stub("memory", 0, <<>>, "", FALSE, descriptor.initial,
                        descriptor.hasmax, descriptor.max)]
    ELSE [ok |-> FALSE, stub |-> NoStub]

\* MyResolver::resolve_table: TableInstance::alloc checks the limits.
ResolveTable(descriptor) ==
    IF LimitsValid(descriptor.initial, descriptor.hasmax, descriptor.max)
    THEN [ok |-> TRUE,
          stub |-> Stub("table", 0, <<>>, "", FALSE, descriptor.initial,
                        descriptor.hasmax, descriptor.max)]
    ELSE [ok |-> FALSE, stub |-> NoStub]

Resolve(i) ==
    CASE i.kind = "func" -> ResolveFunc(i.module, i.field, i.sig)
      [] i.kind = "global" -> ResolveGlobal(i)
      [] i.kind = "memory" -> ResolveMemory(i)
      [] i.kind = "table" -> ResolveTable(i)

\* `wasmi::Module::from_parity_wasm_module(module.clone())?`, run on the module
\* extract_programs has stripped.
FromParityWasm ==
    /\ pc = "harvested"
    /\ IF \A k \in 1..Len(module.imports) : ImportValid(module.imports[k])
       THEN /\ pc' = "resolve"
            /\ UNCHANGED outcome
       ELSE Fail
    /\ ri' = 1
    /\ stubs' = <<>>
    /\ UNCHANGED <<harvestVars, configVars, runVars, module, programs, cur,
                   files, trace>>

\* `wasmi::ModuleInstance::new(&instance, &MyResolver)?`: one import resolved.
ResolveImport ==
    /\ pc = "resolve"
    /\ ri <= Len(module.imports)
    /\ IF Resolve(module.imports[ri]).ok
       THEN /\ stubs' = Append(stubs, Resolve(module.imports[ri]).stub)
            /\ ri' = ri + 1
            /\ UNCHANGED <<pc, outcome>>
       ELSE /\ Fail
            /\ UNCHANGED <<ri, stubs>>
    /\ UNCHANGED <<harvestVars, configVars, runVars, module, programs, cur,
                   files, trace>>

\* Every import is resolved: the instance is there.
InstanceReady ==
    /\ pc = "resolve"
    /\ ri > Len(module.imports)
    /\ pc' = "generate"
    /\ cur' = 1
    /\ trace' = Append(trace, [ev |-> "sandbox", arg |-> Len(module.sections)])
    /\ UNCHANGED <<harvestVars, configVars, sandboxVars, runVars, module,
                   programs, outcome, files>>

NextResolve ==
    \/ FromParityWasm
    \/ ResolveImport
    \/ InstanceReady

\* The construction of the sandbox for a module already harvested.
InitResolve ==
    /\ module \in { [sections |-> <<>>, imports |-> is] :
                      is \in SeqsUpTo(ImportKinds, MaxImports) }
    /\ fs = module
    /\ path = TRUE
    /\ typescript = FALSE
    /\ nodejs = FALSE
    /\ pc = "harvested"
    /\ outcome = "none"
    /\ idx = 1
    /\ kept = <<>>
    /\ payload = <<>>
    /\ a = <<>>
    /\ p = NoEnvelope
    /\ ret = <<>>
    /\ programs = <<>>
    /\ ri = 1
    /\ stubs = <<>>
    /\ cur = 1
    /\ nruns = 0
    /\ name = ""
    /\ v = <<>>
    /\ log = <<>>
    /\ tokens = <<>>
    /\ depth = 0
    /\ event = NoEvent
    /\ files = {}
    /\ trace = <<[ev |-> "decode", arg |-> 0], [ev |-> "harvest", arg |-> 0]>>

SpecResolve == InitResolve /\ [][NextResolve]_vars

-----------------------------------------------------------------------------
(* run_descriptor and MyExternals::invoke_index *)

U32(hi, lo) == [hi |-> hi, lo |-> lo]

\* A slip the claims are tried against: a negative argument is recorded as 0.
ToU32Clamped(i) == IF i < 0 THEN U32(0, 0) ELSE U32(i \div 65536, i % 65536)

\* `i as u32`, the 32 bits kept as two 16-bit halves.
ToU32(i) == U32((i \div 65536) % 65536, i % 65536)

\* A slip the claims are tried against: the host function called is not looked at.
InvokeAnyIndex(index, args, vec) ==
    IF Len(args) # 1
    THEN [ok |-> FALSE, vec |-> vec]
    ELSE IF args[1].type = "I32"
    THEN [ok |-> TRUE, vec |-> Append(vec, ToU32(args[1].val))]
    ELSE [ok |-> FALSE, vec |-> vec]

\* MyExternals::invoke_index: Ok(None) after the push, or the trap of `bail!`.
InvokeIndex(index, args, vec) ==
    IF index # 1
    THEN [ok |-> FALSE, vec |-> vec]
    ELSE IF Len(args) # 1
    THEN [ok |-> FALSE, vec |-> vec]
    ELSE IF args[1].type = "I32"
    THEN [ok |-> TRUE, vec |-> Append(vec, ToU32(args[1].val))]
    ELSE [ok |-> FALSE, vec |-> vec]

\* A slip the claims are tried against: the accumulator is kept between calls.
KeptExternals(old) == old

\* `MyExternals(Vec::new())`
NewExternals(old) == <<>>

\* The generator calls run_descriptor: a new accumulator, and the export starts.
RunDescriptor(n) ==
    /\ pc = "generate"
    /\ cur <= Len(programs)
    /\ nruns < MaxRuns
    /\ nruns' = nruns + 1
    /\ name' = n
    /\ v' = NewExternals(v)
    /\ log' = <<>>
    /\ depth' = depth + 1
    /\ event' = [what |-> "run", imp |-> 0, args |-> <<>>]
    /\ pc' = "running"
    /\ UNCHANGED <<harvestVars, configVars, sandboxVars, module, programs, cur,
                   tokens, outcome, files, trace>>

\* The export calls the function import i with args: invoke_index runs, and a
\* trap ends invoke_export with an Err, which `expect` turns into a panic.
HostCall(i, args) ==
    /\ pc = "running"
    /\ stubs[i].kind = "func"
    /\ InvokeIndex(stubs[i].idx, args, v).ok => Len(log) < MaxCalls
    /\ event' = [what |-> "call", imp |-> i, args |-> args]
    /\ IF InvokeIndex(stubs[i].idx, args, v).ok
       THEN /\ v' = InvokeIndex(stubs[i].idx, args, v).vec
            /\ log' = Append(log, args[1].val)
            /\ UNCHANGED <<pc, outcome>>
       ELSE /\ Panic("UnexpectedHostCall")
            /\ UNCHANGED <<v, log>>
    /\ UNCHANGED <<harvestVars, configVars, sandboxVars, module, programs, cur,
                   nruns, name, tokens, depth, files, trace>>

\* The export returns: `assert!(ret.is_none())`, then `v.0` is handed back.
ExportReturn(value) ==
    /\ pc = "running"
    /\ event' = [what |-> IF value THEN "return_value" ELSE "return", imp |-> 0,
                 args |-> <<>>]
    /\ IF value
       THEN /\ Panic("UnexpectedHostCall")
            /\ UNCHANGED <<tokens, depth>>
       ELSE /\ tokens' = v
            /\ depth' = depth - 1
            /\ pc' = "returned"
            /\ UNCHANGED outcome
    /\ UNCHANGED <<harvestVars, configVars, sandboxVars, module, programs, cur,
                   nruns, name, v, log, files, trace>>

\* The export is missing or traps by itself: invoke_export is an Err, and
\* `expect` panics.
ExportTrap ==
    /\ pc = "running"
    /\ event' = [what |-> "trap", imp |-> 0, args |-> <<>>]
    /\ Panic("ExportFailed")
    /\ UNCHANGED <<harvestVars, configVars, sandboxVars, module, programs, cur,
                   nruns, name, v, log, tokens, depth, files, trace>>

\* The generator takes the tokens and goes on; the call is over.
TakeTokens ==
    /\ pc = "returned"
    /\ tokens' = <<>>
    /\ name' = ""
    /\ log' = <<>>
    /\ event' = NoEvent
    /\ pc' = "generate"
    /\ UNCHANGED <<harvestVars, configVars, sandboxVars, module, programs, cur,
                   nruns, v, depth, outcome, files, trace>>

-----------------------------------------------------------------------------
(* Bindgen and Bindgen::_generate *)

\* A slip the claims are tried against: the Programs are taken last to first.
ProgramFromEnd(k, n) == n + 1 - k

\* `for program in programs.iter()`: the Program of the k-th turn, of n.
ProgramOf(k, n) == k

InputPath ==
    /\ pc = "config"
    /\ path' = TRUE
    /\ UNCHANGED <<typescript, nodejs, fs, harvestVars, sandboxVars, runVars,
                   module, programs, cur, pc, outcome, files, trace>>

Typescript(b) ==
    /\ pc = "config"
    /\ typescript' = b
    /\ UNCHANGED <<path, nodejs, fs, harvestVars, sandboxVars, runVars,
                   module, programs, cur, pc, outcome, files, trace>>

Nodejs(b) ==
    /\ pc = "config"
    /\ nodejs' = b
    /\ UNCHANGED <<path, typescript, fs, harvestVars, sandboxVars, runVars,
                   module, programs, cur, pc, outcome, files, trace>>

\* generate: the path is there, the file is decoded, extract_programs starts.
Generate ==
    /\ pc = "config"
    /\ IF path
       THEN /\ module' = fs
            /\ pc' = "extract"
            /\ trace' = Append(trace, [ev |-> "decode", arg |-> 0])
            /\ UNCHANGED outcome
       ELSE /\ Panic("NoInputPath")
            /\ UNCHANGED <<module, trace>>
    /\ UNCHANGED <<configVars, harvestVars, sandboxVars, runVars, programs,
                   cur, files>>

\* `js::SubContext { program, cx }.generate()` is through with a Program.
ProgramDone ==
    /\ pc = "generate"
    /\ cur <= Len(programs)
    /\ trace' = Append(trace, [ev |-> "program",
                               arg |-> ProgramOf(cur, Len(programs))])
    /\ cur' = cur + 1
    /\ UNCHANGED <<configVars, harvestVars, sandboxVars, runVars, module,
                   programs, pc, outcome, files>>

\* `cx.finalize(stem)`: the generated text is collected, and the context with
\* the run_descriptor closure is dropped.
Finalize ==
    /\ pc = "generate"
    /\ cur > Len(programs)
    /\ trace' = Append(trace, [ev |-> "collect", arg |-> 0])
    /\ v' = <<>>
    /\ pc' = "write_js"
    /\ UNCHANGED <<configVars, harvestVars, sandboxVars, module, programs, cur,
                   nruns, name, log, tokens, depth, event, outcome, files>>

WriteJs ==
    /\ pc = "write_js"
    /\ files' = files \cup {"js"}
    /\ trace' = Append(trace, [ev |-> "write_js", arg |-> 0])
    /\ pc' = "write_ts"
    /\ UNCHANGED <<configVars, harvestVars, sandboxVars, runVars, module,
                   programs, cur, outcome>>

WriteTs ==
    /\ pc = "write_ts"
    /\ IF typescript
       THEN /\ files' = files \cup {"d.ts"}
            /\ trace' = Append(trace, [ev |-> "write_ts", arg |-> 0])
       ELSE UNCHANGED <<files, trace>>
    /\ pc' = "write_shim"
    /\ UNCHANGED <<configVars, harvestVars, sandboxVars, runVars, module,
                   programs, cur, outcome>>

WriteShim ==
    /\ pc = "write_shim"
    /\ IF nodejs
       THEN /\ files' = files \cup {"bg.js"}
            /\ trace' = Append(trace, [ev |-> "write_shim", arg |-> 0])
       ELSE UNCHANGED <<files, trace>>
    /\ pc' = "serialize"
    /\ UNCHANGED <<configVars, harvestVars, sandboxVars, runVars, module,
                   programs, cur, outcome>>

\* `parity_wasm::serialize(module).map_err(..)?`: the bytes, or an Err.
Serialize ==
    /\ pc = "serialize"
    /\ \/ /\ pc' = "write_wasm"
          /\ trace' = Append(trace, [ev |-> "serialize",
                                     arg |-> Len(module.sections)])
          /\ UNCHANGED outcome
       \/ /\ Fail
          /\ UNCHANGED trace
    /\ UNCHANGED <<configVars, harvestVars, sandboxVars, runVars, module,
                   programs, cur, files>>

WriteWasm ==
    /\ pc = "write_wasm"
    /\ files' = files \cup {"bg.wasm"}
    /\ trace' = Append(trace, [ev |-> "write_wasm", arg |-> 0])
    /\ pc' = "done"
    /\ outcome' = "Ok"
    /\ UNCHANGED <<configVars, harvestVars, sandboxVars, runVars, module,
                   programs, cur>>

NextRun ==
    \/ \E n \in ExportNames : RunDescriptor(n)
    \/ \E i \in 1..Len(stubs) : \E args \in ArgsOf(stubs[i].sig) : HostCall(i, args)
    \/ \E value \in BOOLEAN : ExportReturn(value)
    \/ ExportTrap
    \/ TakeTokens

NextGenerate ==
    \/ InputPath
    \/ \E b \in BOOLEAN : Typescript(b)
    \/ \E b \in BOOLEAN : Nodejs(b)
    \/ Generate
    \/ ProgramDone
    \/ Finalize
    \/ WriteJs
    \/ WriteTs
    \/ WriteShim
    \/ Serialize
    \/ WriteWasm

Next ==
    \/ NextGenerate
    \/ NextHarvest
    \/ NextResolve
    \/ NextRun

\* The state after Bindgen::new(), and a module in the input file.
Init ==
    /\ fs \in { [sections |-> ss, imports |-> StdImports] :
                  ss \in SectionLists({"metadata"}, GenChunks, 1) }
    /\ module = [sections |-> <<>>, imports |-> <<>>]
    /\ path = FALSE
    /\ typescript = FALSE
    /\ nodejs = FALSE
    /\ pc = "config"
    /\ outcome = "none"
    /\ idx = 1
    /\ kept = <<>>
    /\ payload = <<>>
    /\ a = <<>>
    /\ p = NoEnvelope
    /\ ret = <<>>
    /\ programs = <<>>
    /\ ri = 1
    /\ stubs = <<>>
    /\ cur = 1
    /\ nruns = 0
    /\ name = ""
    /\ v = <<>>
    /\ log = <<>>
    /\ tokens = <<>>
    /\ depth = 0
    /\ event = NoEvent
    /\ files = {}
    /\ trace = <<>>

Spec == Init /\ [][Next]_vars

-----------------------------------------------------------------------------
(* Properties of extract_programs, checked under SpecHarvest *)

\* The frames of a payload as the wire format defines them: a 4-byte
\* little-endian length L, then L bytes.
LittleEndian32(bytes) ==
    bytes[1] + 256 * (bytes[2] + 256 * (bytes[3] + 256 * bytes[4]))

Overruns(pl) == Len(pl) >= 4 /\ LittleEndian32(pl) > Len(pl) - 4

RECURSIVE WellFramed(_)
WellFramed(pl) ==
    \/ pl = <<>>
    \/ /\ Len(pl) >= 4
       /\ ~Overruns(pl)
       /\ WellFramed(SubSeq(pl, 5 + LittleEndian32(pl), Len(pl)))

RECURSIVE FramesOf(_)
FramesOf(pl) ==
    IF pl = <<>> THEN <<>>
    ELSE <<SubSeq(pl, 5, 4 + LittleEndian32(pl))>>
            \o FramesOf(SubSeq(pl, 5 + LittleEndian32(pl), Len(pl)))

Matching(s) == s.type = "Custom" /\ s.name = "__wasm_bindgen_unstable"

MetadataSections(ss) == SelectSeq(ss, Matching)

OtherSections(ss) == SelectSeq(ss, LAMBDA s : ~Matching(s))

ValidFrame(f) ==
    /\ DecodeEnvelope(f).ok
    /\ DecodeEnvelope(f).schema_version = SCHEMA_VERSION
    /\ DecodeProgram(f).ok

AllValid(ss) ==
    \A i \in 1..Len(ss) :
        Matching(ss[i]) =>
            /\ WellFramed(ss[i].payload)
            /\ \A k \in 1..Len(FramesOf(ss[i].payload)) :
                  ValidFrame(FramesOf(ss[i].payload)[k])

\* The frames of all metadata sections: sections in module order, frames in
\* payload order.
AllFrames(ss) ==
    Concat([i \in 1..Len(MetadataSections(ss)) |->
                FramesOf(MetadataSections(ss)[i].payload)])

\* C1: what extract_programs returns is, frame by frame, the Program decoded
\* from the frames of the metadata sections, sections in module order and
\* frames in payload order, none skipped, repeated or moved; and a module whose
\* frames are all valid is harvested without a failure.
C1_ProgramsAreTheFrames ==
    /\ AllValid(fs.sections) => pc # "panicked"
    /\ pc = "harvested" =>
          /\ AllValid(fs.sections)
          /\ Len(programs) = Len(AllFrames(fs.sections))
          /\ \A k \in 1..Len(programs) :
                programs[k] = DecodeProgram(AllFrames(fs.sections)[k]).program

\* Two different Programs harvested from the two frames of one section.
C1_Witness ==
    /\ pc = "harvested"
    /\ Len(programs) = 2
    /\ programs[1] # programs[2]
    /\ Len(MetadataSections(fs.sections)) = 1

\* C2: after a successful extract_programs the section list is the input list
\* without its metadata sections, the other sections unchanged and in order;
\* without a metadata section nothing is harvested and nothing changes.
C2_OnlyMetadataRemoved ==
    pc = "harvested" =>
        /\ module.sections = OtherSections(fs.sections)
        /\ \A i \in 1..Len(module.sections) : ~Matching(module.sections[i])
        /\ MetadataSections(fs.sections) = <<>> =>
              /\ programs = <<>>
              /\ module.sections = fs.sections

\* A custom section of another name is kept while a metadata section goes.
C2_Witness ==
    /\ pc = "harvested"
    /\ Len(fs.sections) = 2
    /\ Len(module.sections) = 1
    /\ module.sections[1].type = "Custom"
    /\ programs # <<>>

\* C3: at the head of a frame whose declared length is more than the bytes
\* left after the length, the next step is the MalformedMetadata failure,
\* whatever came before, and nothing is returned.
C3_OverrunIsMalformed ==
    [][ (pc = "frame" /\ Overruns(payload)) =>
           /\ pc' = "panicked"
           /\ outcome' = "MalformedMetadata"
           /\ programs' = <<>> ]_vars

\* An overrunning frame after a frame that was harvested.
C3_Witness ==
    /\ pc = "panicked"
    /\ outcome = "MalformedMetadata"
    /\ Overruns(payload)
    /\ ret # <<>>
    /\ programs = <<>>

\* C4: the full decode is only ever attempted on a frame whose envelope has
\* exactly the consumer's schema version, and a frame whose envelope has
\* another one fails as ProtocolVersionMismatch, also when it is no Program.
C4_VersionCheckedFirst ==
    /\ pc = "decode" =>
          /\ DecodeEnvelope(a).ok
          /\ DecodeEnvelope(a).schema_version = SCHEMA_VERSION
    /\ (pc = "panicked" /\ DecodeEnvelope(a).ok
            /\ DecodeEnvelope(a).schema_version # SCHEMA_VERSION) =>
          outcome = "ProtocolVersionMismatch"

\* A frame of another schema version that would not decode as a Program.
C4_Witness ==
    /\ outcome = "ProtocolVersionMismatch"
    /\ DecodeEnvelope(a).schema_version # SCHEMA_VERSION
    /\ ~DecodeProgram(a).ok
    /\ ret # <<>>

-----------------------------------------------------------------------------
(* Properties of run_descriptor, checked under Spec *)

\* The unsigned 32-bit integer congruent to x modulo 2^32, in 16-bit halves.
Unsigned32(x) ==
    [hi |-> ((x \div 65536) + 65536) % 65536, lo |-> x % 65536]

\* C5: when the export returns normally with no value, run_descriptor hands
\* back the arguments of the describe calls of that run, in call order, one
\* token per call, each taken as unsigned.
C5_TokensAreTheArguments ==
    pc = "returned" =>
        /\ Len(tokens) = Len(log)
        /\ \A k \in 1..Len(tokens) : tokens[k] = Unsigned32(log[k])

\* The describe callback called with 10, 20, 30.
C5_Witness ==
    /\ pc = "returned"
    /\ log = <<10, 20, 30>>
    /\ tokens = <<U32(0, 10), U32(0, 20), U32(0, 30)>>

\* What the export did last is something only a broken describe shim does.
Offending ==
    \/ /\ event.what = "call"
       /\ \/ ~(module.imports[event.imp].module = "__wbindgen_placeholder__"
                /\ module.imports[event.imp].field = "__wbindgen_describe")
          \/ Len(event.args) # 1
          \/ /\ Len(event.args) = 1
             /\ event.args[1].type # "I32"
    \/ event.what = "return_value"

\* C6: a call of an import other than the describe callback, a describe call
\* with another argument count or with an argument that is no 32-bit integer,
\* and an export returning a value all end the run in UnexpectedHostCall, and
\* no tokens are handed back.
C6_MisuseIsFatal ==
    Offending =>
        /\ pc = "panicked"
        /\ outcome = "UnexpectedHostCall"
        /\ tokens = <<>>

\* A call of another import after two describe calls were accepted.
C6_Witness ==
    /\ outcome = "UnexpectedHostCall"
    /\ event.what = "call"
    /\ module.imports[event.imp].module = "env"
    /\ Len(log) = 2
    /\ tokens = <<>>

\* C7: every run_descriptor call starts with an empty accumulator, the
\* accumulator and the result hold one token per describe call of that same
\* call, and never more than one call is in flight.
C7_AccumulatorPerCall ==
    /\ depth \in {0, 1}
    /\ depth = 1 => pc \in {"running", "panicked"}
    /\ event.what = "run" => v = <<>>
    /\ pc = "running" => depth = 1 /\ Len(v) = Len(log)
    /\ pc = "returned" => depth = 0 /\ tokens = v /\ Len(v) = Len(log)

\* A second call that has handed back a single token.
C7_Witness ==
    /\ nruns = 2
    /\ pc = "returned"
    /\ name = "describe_bar"
    /\ Len(tokens) = 1

-----------------------------------------------------------------------------
(* Properties of the sandbox, checked under SpecResolve *)

WellFormed(i) ==
    (i.kind = "memory" \/ i.kind = "table") => (i.hasmax => i.initial <= i.max)

\* C8: with well-formed imports the construction of the sandbox never fails,
\* every import resolves to a stand-in of its kind, and a function import
\* resolves to the describe callback exactly when it carries the two sentinel
\* names, to the trapping stand-in otherwise.
C8_ResolutionIsTotal ==
    /\ (\A k \in 1..Len(module.imports) : WellFormed(module.imports[k])) =>
          outcome # "Err" /\ pc # "failed"
    /\ pc = "generate" => Len(stubs) = Len(module.imports)
    /\ \A k \in 1..Len(stubs) :
          /\ stubs[k].kind = module.imports[k].kind
          /\ stubs[k].kind = "func" =>
                stubs[k].idx =
                    IF module.imports[k].module = "__wbindgen_placeholder__"
                       /\ module.imports[k].field = "__wbindgen_describe"
                    THEN 1 ELSE 0

\* A sandbox built for a function import of other names and a memory import.
C8_Witness ==
    /\ pc = "generate"
    /\ Len(stubs) = 2
    /\ stubs[1].kind = "func"
    /\ stubs[1].idx = 0
    /\ stubs[2].kind = "memory"

-----------------------------------------------------------------------------
(* Properties of generate, checked under Spec *)

Fatal == {"ProtocolVersionMismatch", "MalformedMetadata", "UnexpectedHostCall"}

\* C9: a run in which one of the three fatal failures occurs stops there: no
\* file was written, and no step follows.
C9_FatalMeansNoOutput ==
    outcome \in Fatal =>
        /\ files = {}
        /\ pc = "panicked"
        /\ ~ENABLED Next

\* A failure of the second Program's descriptor, after the first Program was
\* processed.
C9_Witness ==
    /\ outcome = "UnexpectedHostCall"
    /\ Len(programs) = 2
    /\ cur = 2
    /\ files = {}

Ev(e, n) == [ev |-> e, arg |-> n]

Happened(e) == \E k \in 1..Len(trace) : trace[k].ev = e

Stripped == SelectSeq(fs.sections, LAMBDA s : ~Matching(s))

ProgramSteps == [k \in 1..Len(programs) |-> Ev("program", k)]

\* C10 as amended: a successful run decodes, harvests, builds the sandbox from
\* the stripped module, processes the Programs in harvest order, collects,
\* writes the binding file, the type declarations and the import shim (each if
\* asked for), re-serializes the stripped module and writes the module file
\* last; the module file is never written before the re-serialization, and no
\* run_descriptor call happens before the harvest and the sandbox.
C10_StepsInOrder ==
    /\ pc = "done" =>
          trace = <<Ev("decode", 0), Ev("harvest", Len(programs)),
                    Ev("sandbox", Len(Stripped))>>
                  \o ProgramSteps
                  \o <<Ev("collect", 0), Ev("write_js", 0)>>
                  \o (IF typescript THEN <<Ev("write_ts", 0)>> ELSE <<>>)
                  \o (IF nodejs THEN <<Ev("write_shim", 0)>> ELSE <<>>)
                  \o <<Ev("serialize", Len(Stripped)), Ev("write_wasm", 0)>>
    /\ "bg.wasm" \in files => Happened("serialize")
    /\ nruns > 0 => Happened("harvest") /\ Happened("sandbox")

\* C10 as stated: no output file is written before the re-serialization.
C10_AsStated ==
    /\ pc = "done" =>
          trace = <<Ev("decode", 0), Ev("harvest", Len(programs)),
                    Ev("sandbox", Len(Stripped))>>
                  \o ProgramSteps
                  \o <<Ev("collect", 0), Ev("serialize", Len(Stripped)),
                       Ev("write_js", 0)>>
                  \o (IF typescript THEN <<Ev("write_ts", 0)>> ELSE <<>>)
                  \o (IF nodejs THEN <<Ev("write_shim", 0)>> ELSE <<>>)
                  \o <<Ev("write_wasm", 0)>>
    /\ files # {} => Happened("serialize")
    /\ nruns > 0 => Happened("harvest") /\ Happened("sandbox")

\* A successful run with two Programs and all four output files.
C10_Witness ==
    /\ pc = "done"
    /\ Len(programs) = 2
    /\ files = {"js", "d.ts", "bg.js", "bg.wasm"}

====
